---- MODULE Spec2Model ----
(***************************************************************************)
(* Model of rust-git (src/src/main.rs): the object store under .git, the   *)
(* object codec, hash-object, cat-file / ls-tree and write-tree.           *)
(*                                                                         *)
(* Bytes are naturals 0..255 and byte strings are sequences of bytes; a    *)
(* Rust String is modelled by its UTF-8 bytes.  SHA-1 is replaced by a     *)
(* DigestBytes-wide rolling hash over the same input bytes, and zlib by    *)
(* a framed stream with a header and a checksum; both keep the structure   *)
(* the code relies on (deterministic digest split into a 2-hex directory   *)
(* and a file name, reversible and checkable compression).                 *)
(***************************************************************************)
EXTENDS Naturals, Integers, Sequences, FiniteSets, TLC

\* ------------------------------------------------------------------ bounds
\* width of the modelled digest in bytes (SHA-1 has 20)
DigestBytes == 2
\* largest number of files and directories in the working directory
MaxNodes == 2
\* largest number of writing commands (hash-object -w, write-tree) in a run
MaxWrites == 2

\* ------------------------------------------------------------ byte strings
NUL == 0
SP == 32
LF == 10

\* "blob", "tree", the two modes and the names used by the CLI
BLOB == <<98, 108, 111, 98>>
TREE == <<116, 114, 101, 101>>
MODE_DIR == <<52, 48, 48, 48, 48>>
MODE_FILE == <<49, 48, 48, 54, 52, 52>>
DOT_GIT == <<46, 103, 105, 116>>
\* "ref: refs/heads/main\n"
HEAD_CONTENT == <<114, 101, 102, 58, 32, 114, 101, 102, 115, 47, 104, 101, 97, 100, 115, 47, 109, 97, 105, 110, 10>>

RECURSIVE Concat(_)
\* [a, b, c].concat()
Concat(ss) == IF ss = <<>> THEN <<>> ELSE Head(ss) \o Concat(Tail(ss))

RECURSIVE ToDecimal(_)
\* usize::to_string
ToDecimal(n) == IF n < 10 THEN <<48 + n>> ELSE ToDecimal(n \div 10) \o <<48 + (n % 10)>>

IsDigit(b) == b >= 48 /\ b <= 57

RECURSIVE ParseDecimal(_, _)
\* str::parse::<usize> on a token of decimal digits, acc is the value so far
ParseDecimal(s, acc) == IF s = <<>> THEN acc ELSE ParseDecimal(Tail(s), acc * 10 + (Head(s) - 48))

\* str::parse::<usize> succeeds: non-empty, an optional '+', then digits only
ParsesAsUsize(s) ==
    LET d == IF s # <<>> /\ Head(s) = 43 THEN Tail(s) ELSE s
    IN d # <<>> /\ \A i \in 1..Len(d) : IsDigit(d[i])

ParseUsize(s) == ParseDecimal(IF Head(s) = 43 THEN Tail(s) ELSE s, 0)

\* position of the first b in s (0-based, as Iterator::position), or -1
PositionOf(s, b) ==
    IF \E i \in 1..Len(s) : s[i] = b
    THEN (CHOOSE i \in 1..Len(s) : s[i] = b /\ \A j \in 1..(i - 1) : s[j] # b) - 1
    ELSE -1

IsCont(b) == b >= 128 /\ b <= 191

RECURSIVE IsUtf8(_)
\* String::from_utf8 succeeds
IsUtf8(s) ==
    IF s = <<>> THEN TRUE
    ELSE LET b == s[1]
             n == Len(s)
         IN IF b < 128 THEN IsUtf8(Tail(s))
            ELSE IF b >= 194 /\ b <= 223
                 THEN n >= 2 /\ IsCont(s[2]) /\ IsUtf8(SubSeq(s, 3, n))
            ELSE IF b >= 224 /\ b <= 239
                 THEN /\ n >= 3
                      /\ IsCont(s[2]) /\ IsCont(s[3])
                      /\ (b = 224 => s[2] >= 160)
                      /\ (b = 237 => s[2] <= 159)
                      /\ IsUtf8(SubSeq(s, 4, n))
            ELSE IF b >= 240 /\ b <= 244
                 THEN /\ n >= 4
                      /\ IsCont(s[2]) /\ IsCont(s[3]) /\ IsCont(s[4])
                      /\ (b = 240 => s[2] >= 144)
                      /\ (b = 244 => s[2] <= 143)
                      /\ IsUtf8(SubSeq(s, 5, n))
            ELSE FALSE

\* char::is_whitespace restricted to one-byte characters
IsSpace(b) == b \in {9, 10, 11, 12, 13, 32}

RECURSIVE SplitWhitespace(_, _)
\* str::split_whitespace: the non-empty runs between white space; cur is the
\* token being read
SplitWhitespace(s, cur) ==
    IF s = <<>> THEN (IF cur = <<>> THEN <<>> ELSE <<cur>>)
    ELSE IF IsSpace(Head(s))
         THEN (IF cur = <<>> THEN <<>> ELSE <<cur>>) \o SplitWhitespace(Tail(s), <<>>)
         ELSE SplitWhitespace(Tail(s), Append(cur, Head(s)))

RECURSIVE BytesLess(_, _)
\* a < b for str::cmp: lexicographic on the bytes, a proper prefix is smaller
BytesLess(a, b) ==
    IF b = <<>> THEN FALSE
    ELSE IF a = <<>> THEN TRUE
    ELSE IF Head(a) # Head(b) THEN Head(a) < Head(b)
    ELSE BytesLess(Tail(a), Tail(b))

RECURSIVE JoinLines(_)
\* entries.join("\n")
JoinLines(ss) ==
    IF ss = <<>> THEN <<>>
    ELSE IF Len(ss) = 1 THEN ss[1]
    ELSE ss[1] \o <<LF>> \o JoinLines(Tail(ss))

\* ------------------------------------------------------------------- hex
HexDigit(d) == IF d < 10 THEN 48 + d ELSE 87 + d

HexVal(c) == IF c <= 57 THEN c - 48 ELSE c - 87

RECURSIVE HexEncode(_)
\* hex::encode and format!("{:x}") of a digest: two lowercase digits a byte
HexEncode(bs) ==
    IF bs = <<>> THEN <<>>
    ELSE <<HexDigit(Head(bs) \div 16), HexDigit(Head(bs) % 16)>> \o HexEncode(Tail(bs))

RECURSIVE HexDecode(_)
\* hex::decode of a digest the program rendered itself
HexDecode(h) ==
    IF Len(h) < 2 THEN <<>>
    ELSE <<HexVal(h[1]) * 16 + HexVal(h[2])>> \o HexDecode(SubSeq(h, 3, Len(h)))

\* ---------------------------------------------------------------- digest
RECURSIVE HashFold(_, _, _)
\* Sha1::update over the bytes, scaled: byte k of the state is
\* h <- ((2k - 1) h + b + 1) mod 256, so byte 1 adds the input up and the
\* others depend on the positions
HashFold(bs, k, h) ==
    IF bs = <<>> THEN h ELSE HashFold(Tail(bs), k, (h * (2 * k - 1) + Head(bs) + 1) % 256)

RECURSIVE Finalize(_, _)
\* Sha1::finalize: the digest bytes k..DigestBytes
Finalize(bs, k) ==
    IF k > DigestBytes THEN <<>> ELSE <<HashFold(bs, k, 7)>> \o Finalize(bs, k + 1)

\* the canonical encoding "<kind> <len>\0<payload>"
Encode(kind, payload) == Concat(<<kind, <<SP>>, ToDecimal(Len(payload)), <<NUL>>, payload>>)

\* GitRepo::hash_object: hex digest of type, " ", length, "\0", bytes
hash_object(bytes, object_type) ==
    HexEncode(Finalize(Encode(object_type, bytes), 1))

\* ------------------------------------------------------------ compression
RECURSIVE ByteSum(_)
ByteSum(bs) == IF bs = <<>> THEN 0 ELSE Head(bs) + ByteSum(Tail(bs))

\* the stream's trailing checksum (Adler-32 scaled to one byte)
Checksum(bs) == (1 + ByteSum(bs)) % 251

\* GitRepo::compress_content: zlib header, body, checksum
compress_content(bs) == <<120, 156>> \o bs \o <<Checksum(bs)>>

\* ZlibDecoder accepts the stream
IsZlib(data) ==
    /\ Len(data) >= 3
    /\ data[1] = 120 /\ data[2] = 156
    /\ data[Len(data)] = Checksum(SubSeq(data, 3, Len(data) - 1))

\* GitRepo::decompress_object of an accepted stream
decompress_object(data) == SubSeq(data, 3, Len(data) - 1)

\* ---------------------------------------------------------------- results
\* GitObject { type_, content, size }
NoObject == [type_ |-> <<>>, content |-> <<>>, size |-> 0]

\* Result<T>: Ok with a digest and/or an object, Err with a GitError variant,
\* or a panic raised by unwrap()
Ok(h, o) == [tag |-> "Ok", err |-> "", hash |-> h, obj |-> o]
Err(e) == [tag |-> "Err", err |-> e, hash |-> <<>>, obj |-> NoObject]
Panic(e) == [tag |-> "Panic", err |-> e, hash |-> <<>>, obj |-> NoObject]

\* ------------------------------------------------------------------ codec
RECURSIVE read_tree_entries(_, _, _, _)
\* the loop of read_tree_object: position is 0-based, entries the names read
\* and shas the digests read (_sha)
read_tree_entries(data, position, entries, shas) ==
    IF position >= Len(data) THEN [err |-> "", names |-> entries, shas |-> shas]
    ELSE LET rest == SubSeq(data, position + 1, Len(data))
             null_pos == PositionOf(rest, NUL)
         IN IF null_pos < 0 THEN [err |-> "Parse", names |-> <<>>, shas |-> <<>>]
            ELSE LET mode_and_name == SubSeq(rest, 1, null_pos)
                     sp == PositionOf(mode_and_name, SP)
                     next == position + null_pos + 1
                 IN IF ~IsUtf8(mode_and_name) THEN [err |-> "Utf8", names |-> <<>>, shas |-> <<>>]
                    ELSE IF sp < 0 THEN [err |-> "Parse", names |-> <<>>, shas |-> <<>>]
                    ELSE IF next + DigestBytes > Len(data) THEN [err |-> "Parse", names |-> <<>>, shas |-> <<>>]
                    ELSE read_tree_entries(data, next + DigestBytes,
                            Append(entries, SubSeq(mode_and_name, sp + 2, Len(mode_and_name))),
                            Append(shas, HexEncode(SubSeq(data, next + 1, next + DigestBytes))))

\* read_tree_object: the entry names joined by "\n"
read_tree_object(data) ==
    LET r == read_tree_entries(data, 0, <<>>, <<>>)
    IN IF r.err # "" THEN Err(r.err)
       ELSE Ok(<<>>, [type_ |-> TREE, content |-> JoinLines(r.names), size |-> 0])

\* GitObject::from_raw
from_raw(raw_bytes) ==
    LET null_pos == PositionOf(raw_bytes, NUL)
    IN IF null_pos < 0 THEN Err("Parse")
       ELSE LET header == SubSeq(raw_bytes, 1, null_pos)
                parts == SplitWhitespace(header, <<>>)
                content == SubSeq(raw_bytes, null_pos + 2, Len(raw_bytes))
            IN IF ~IsUtf8(header) THEN Err("Utf8")
               ELSE IF Len(parts) # 2 THEN Err("Parse")
               ELSE IF ~ParsesAsUsize(parts[2]) THEN Err("Parse")
               ELSE LET type_ == parts[1]
                        size == ParseUsize(parts[2])
                    IN IF type_ = BLOB
                       THEN (IF IsUtf8(content)
                             THEN Ok(<<>>, [type_ |-> type_, content |-> content, size |-> size])
                             ELSE Err("Utf8"))
                       ELSE IF type_ = TREE
                       THEN LET t == read_tree_object(content)
                            IN IF t.tag = "Ok"
                               THEN Ok(<<>>, [type_ |-> type_, content |-> t.obj.content, size |-> size])
                               ELSE t
                       ELSE Err("OType")

\* ------------------------------------------------------- the .git directory
NoFiles == [p \in {} |-> <<>>]

\* the file system under .git: the directories init creates, HEAD, the
\* sub-directories of .git/objects and the files inside them
NoStore == [root |-> FALSE, objects |-> FALSE, refs |-> FALSE, head |-> <<>>,
            dirs |-> {}, files |-> NoFiles]

\* hash.split_at(2)
DirOf(hash) == SubSeq(hash, 1, 2)
FileOf(hash) == SubSeq(hash, 3, Len(hash))

\* the object file .git/objects/<dir>/<file> exists
HasObject(st, hash) == Len(hash) > 2 /\ <<DirOf(hash), FileOf(hash)>> \in DOMAIN st.files

\* GitRepo::init: four unwrap()ed calls; create_dir(".git") fails when it exists
init(st) ==
    IF st.root
    THEN [res |-> Panic("Io.AlreadyExists"), st |-> st]
    ELSE [res |-> Ok(<<>>, NoObject),
          st |-> [st EXCEPT !.root = TRUE, !.objects = TRUE, !.refs = TRUE, !.head = HEAD_CONTENT]]

\* fs::read(.git/objects/<dir>/<file>): the error, or "" when the file is read
ReadError(st, dir, file) ==
    IF ~st.objects \/ dir \notin st.dirs THEN "Io.NotFound"
    ELSE IF file = <<>> THEN "Io.IsADirectory"
    ELSE IF <<dir, file>> \notin DOMAIN st.files THEN "Io.NotFound"
    ELSE ""

\* read_object with the length check behind the read: a short digest has
\* already been handed to fs::read
read_object_late_check(st, hash) ==
    IF Len(hash) < 2
    THEN [res |-> Err("InvalidHash"), reads |-> <<(<<hash, <<>>>>)>>]
    ELSE LET dir == DirOf(hash)
             file == FileOf(hash)
             e == ReadError(st, dir, file)
         IN IF e # "" THEN [res |-> Err(e), reads |-> <<(<<dir, file>>)>>]
            ELSE IF ~IsZlib(st.files[<<dir, file>>])
                 THEN [res |-> Err("Io.InvalidInput"), reads |-> <<(<<dir, file>>)>>]
                 ELSE [res |-> from_raw(decompress_object(st.files[<<dir, file>>])),
                       reads |-> <<(<<dir, file>>)>>]

\* GitRepo::read_object; reads lists the paths handed to fs::read
read_object(st, hash) ==
    IF Len(hash) < 2
    THEN [res |-> Err("InvalidHash"), reads |-> <<>>]
    ELSE LET dir == DirOf(hash)
             file == FileOf(hash)
             e == ReadError(st, dir, file)
         IN IF e # "" THEN [res |-> Err(e), reads |-> <<(<<dir, file>>)>>]
            ELSE LET compressed_data == st.files[<<dir, file>>]
                 IN IF ~IsZlib(compressed_data)
                    THEN [res |-> Err("Io.InvalidInput"), reads |-> <<(<<dir, file>>)>>]
                    ELSE [res |-> from_raw(decompress_object(compressed_data)),
                          reads |-> <<(<<dir, file>>)>>]

\* create_dir as fs::create_dir_all: the missing parents are created too
create_dir_all(st, dir) ==
    [err |-> "", st |-> [st EXCEPT !.root = TRUE, !.objects = TRUE, !.dirs = @ \cup {dir}]]

\* fs::create_dir(.git/objects/<dir>): not recursive, and an error when the
\* directory exists
create_dir(st, dir) ==
    IF ~st.objects THEN [err |-> "Io.NotFound", st |-> st]
    ELSE IF dir \in st.dirs THEN [err |-> "Io.AlreadyExists", st |-> st]
    ELSE [err |-> "", st |-> [st EXCEPT !.dirs = @ \cup {dir}]]

\* fs::write(.git/objects/<dir>/<file>, data): creates or replaces the file
fs_write(st, dir, file, data) ==
    IF ~st.objects \/ dir \notin st.dirs THEN [err |-> "Io.NotFound", st |-> st]
    ELSE [err |-> "",
          st |-> [st EXCEPT !.files = [p \in DOMAIN @ \cup {<<dir, file>>} |->
                                          IF p = <<dir, file>> THEN data ELSE @[p]]]]

\* GitRepo::write_object: compress, create_dir, fs::write
write_object(st, hash, byte_sequence) ==
    LET compressed == compress_content(byte_sequence)
        c == create_dir(st, DirOf(hash))
        w == fs_write(c.st, DirOf(hash), FileOf(hash), compressed)
    IN IF c.err # "" THEN [res |-> Err(c.err), st |-> c.st]
       ELSE IF w.err # "" THEN [res |-> Err(w.err), st |-> w.st]
       ELSE [res |-> Ok(hash, NoObject), st |-> w.st]

\* GitRepo::ls_tree
ls_tree(st, tree_ish) ==
    LET r == read_object(st, tree_ish)
    IN IF r.res.tag # "Ok" THEN r
       ELSE IF r.res.obj.type_ # TREE THEN [res |-> Err("OType"), reads |-> r.reads]
       ELSE r

\* ------------------------------------------------------ the working directory
\* a directory is a function from entry names to nodes
NoKids == [n \in {} |-> 0]
FileNode(c) == [isDir |-> FALSE, data |-> c, kids |-> NoKids]
DirNode(k) == [isDir |-> TRUE, data |-> <<>>, kids |-> k]

\* the names "a", "B", "ab" and the file contents "ab", "ba" and one byte
\* that is not UTF-8
Names == {<<97>>, <<66>>, <<97, 98>>}
Contents == {<<97, 98>>, <<98, 97>>, <<255>>}

RECURSIVE NodeCount(_)
NodeCount(kids) ==
    IF DOMAIN kids = {} THEN 0
    ELSE LET n == CHOOSE x \in DOMAIN kids : TRUE
             rest == [m \in DOMAIN kids \ {n} |-> kids[m]]
         IN 1 + (IF kids[n].isDir THEN NodeCount(kids[n].kids) ELSE 0) + NodeCount(rest)

\* kids with the entry name set to node
WithEntry(kids, name, node) ==
    [n \in DOMAIN kids \cup {name} |-> IF n = name THEN node ELSE kids[n]]

\* the directories obtained from kids by one more file or empty directory, at
\* the top or inside a directory of the top
Extensions(kids) ==
    LET nodes == {FileNode(c) : c \in Contents} \cup {DirNode(NoKids)}
    IN {WithEntry(kids, name, node) : name \in Names \ DOMAIN kids, node \in nodes}
       \cup UNION { {WithEntry(kids, d, DirNode(WithEntry(kids[d].kids, name, node))) :
                       name \in Names \ DOMAIN kids[d].kids, node \in nodes}
                    : d \in {x \in DOMAIN kids : kids[x].isDir} }

RECURSIVE TreesUpTo(_)
\* the directories of at most n files and directories
TreesUpTo(n) ==
    IF n = 0 THEN {NoKids}
    ELSE LET T == TreesUpTo(n - 1) IN T \cup UNION {Extensions(k) : k \in T}

\* the orders in which fs::read_dir may yield the entries S
RECURSIVE Perms(_)
Perms(S) == IF S = {} THEN {<<>>} ELSE UNION { {<<x>> \o s : s \in Perms(S \ {x})} : x \in S }

\* ------------------------------------------------------------- write-tree
\* InsertAt for a comparator with its arguments swapped (b[1].cmp(&a[1]))
InsertAtSwapped(s, x) ==
    IF \E i \in 1..Len(s) : BytesLess(s[i][2], x[2])
    THEN CHOOSE i \in 1..Len(s) :
            BytesLess(s[i][2], x[2]) /\ \A j \in 1..(i - 1) : ~BytesLess(s[j][2], x[2])
    ELSE Len(s) + 1

\* position at which sort_by places x among the sorted entries s: behind
\* every entry whose name is not greater
InsertAt(s, x) ==
    IF \E i \in 1..Len(s) : BytesLess(x[2], s[i][2])
    THEN CHOOSE i \in 1..Len(s) :
            BytesLess(x[2], s[i][2]) /\ \A j \in 1..(i - 1) : ~BytesLess(x[2], s[j][2])
    ELSE Len(s) + 1

\* write_tree without the sort: the entries stay in the order of read_dir
SortEntriesSkipped(s) == s

RECURSIVE SortEntries(_)
\* tree_entries.sort_by(|a, b| a[1].cmp(&b[1])): stable, ascending by name
SortEntries(s) ==
    IF Len(s) <= 1 THEN s
    ELSE LET front == SortEntries(SubSeq(s, 1, Len(s) - 1))
             x == s[Len(s)]
             k == InsertAt(front, x)
         IN SubSeq(front, 1, k - 1) \o <<x>> \o SubSeq(front, k, Len(front))

RECURSIVE EntriesBytes(_)
\* the tree payload: "<mode> <name>\0" and the raw digest for each entry;
\* an entry is <<mode, name, "\0", hex digest>>
EntriesBytes(es) ==
    IF es = <<>> THEN <<>>
    ELSE Concat(<<es[1][1], <<SP>>, es[1][2], es[1][3], HexDecode(es[1][4])>>) \o EntriesBytes(Tail(es))

\* what read_dir(p) yields: the entries of the directory, and .git in the
\* top directory once the store exists
Listing(kids, isTop, st) == DOMAIN kids \cup (IF isTop /\ st.root THEN {DOT_GIT} ELSE {})

RECURSIVE write_tree(_, _, _, _)
RECURSIVE WalkEntries(_, _, _, _, _)

\* the for loop of write_tree over the entries in the order read_dir yields
\* them; acc holds the store, tree_entries, the error that ended the loop,
\* the tree payloads encoded and the record of the nested calls
WalkEntries(kids, path, order, i, acc) ==
    IF acc.err # "" \/ i > Len(order) THEN {acc}
    ELSE LET filename == order[i]
         IN IF filename = DOT_GIT THEN WalkEntries(kids, path, order, i + 1, acc)
            ELSE IF kids[filename].isDir
            THEN UNION { IF o.res.tag = "Ok"
                         THEN WalkEntries(kids, path, order, i + 1,
                                 [acc EXCEPT !.st = o.st,
                                             !.entries = Append(@, <<MODE_DIR, filename, <<NUL>>, o.res.hash>>),
                                             !.trees = @ \cup o.trees,
                                             !.calls = @ \cup o.calls])
                         ELSE {[acc EXCEPT !.st = o.st, !.err = o.res.err,
                                           !.trees = @ \cup o.trees, !.calls = @ \cup o.calls]}
                         : o \in write_tree(kids[filename].kids, Append(path, filename), FALSE, acc.st) }
            ELSE LET object_byte_sequence == kids[filename].data
                     hash == hash_object(object_byte_sequence, BLOB)
                     w == write_object(acc.st, hash, Encode(BLOB, object_byte_sequence))
                 IN IF w.res.tag = "Ok"
                    THEN WalkEntries(kids, path, order, i + 1,
                            [acc EXCEPT !.st = w.st,
                                        !.entries = Append(@, <<MODE_FILE, filename, <<NUL>>, hash>>)])
                    ELSE {[acc EXCEPT !.st = w.st, !.err = w.res.err]}

\* write_tree that skips a failed child instead of returning its error: the
\* tree of the remaining entries is written
FinishTreeSkipFailed(path, order, acc) ==
    LET tree_entries_bytes == EntriesBytes(SortEntries(acc.entries))
        hash == hash_object(tree_entries_bytes, TREE)
        w == write_object(acc.st, hash, Encode(TREE, tree_entries_bytes))
    IN [res |-> w.res, st |-> w.st, enum |-> order,
        trees |-> acc.trees \cup {tree_entries_bytes},
        calls |-> acc.calls \cup {[path |-> path, childFailed |-> acc.err # "",
                                   wroteTree |-> w.res.tag = "Ok"]}]

\* the end of write_tree: sort, encode, hash and write the tree; a failed
\* child has already returned the error
FinishTree(path, order, acc) ==
    IF acc.err # ""
    THEN [res |-> Err(acc.err), st |-> acc.st, enum |-> order, trees |-> acc.trees,
          calls |-> acc.calls \cup {[path |-> path, childFailed |-> TRUE, wroteTree |-> FALSE]}]
    ELSE LET tree_entries_bytes == EntriesBytes(SortEntries(acc.entries))
             hash == hash_object(tree_entries_bytes, TREE)
             w == write_object(acc.st, hash, Encode(TREE, tree_entries_bytes))
         IN [res |-> w.res, st |-> w.st, enum |-> order,
             trees |-> acc.trees \cup {tree_entries_bytes},
             calls |-> acc.calls \cup {[path |-> path, childFailed |-> FALSE,
                                        wroteTree |-> w.res.tag = "Ok"]}]

\* GitRepo::write_tree on the directory kids at path: every outcome, one for
\* each order in which read_dir may yield the entries at each level
write_tree(kids, path, isTop, st) ==
    UNION { { FinishTree(path, order, acc) :
                acc \in WalkEntries(kids, path, order, 1,
                           [st |-> st, entries |-> <<>>, err |-> "", trees |-> {}, calls |-> {}]) }
            : order \in Perms(Listing(kids, isTop, st)) }

\* ------------------------------------------------------------------ state
\* store: the file system under .git
\* wt:    the entries of the current directory (without .git)
\* ho:    a running `hash-object -w` between its two reads of the file; its
\*        first read changes nothing and commutes with every other command,
\*        so the other commands are taken before it
\* wr:    two processes inside write_object, between create_dir and fs::write
\* last:  the command that ran last, its argument and what it returned
\* nw:    the number of writing commands started so far
VARIABLES store, wt, ho, wr, last, nw

vars == <<store, wt, ho, wr, last, nw>>

Procs == {1, 2}

HoIdle == [pc |-> "idle", file |-> <<>>, hash |-> <<>>]
WrIdle == [pc |-> "idle", hash |-> <<>>, bytes |-> <<>>, sawDir |-> FALSE, res |-> Ok(<<>>, NoObject)]

\* what a command leaves behind: op and arg name it; res is the value of
\* run_command; reads are the object paths read_object handed to fs::read;
\* preInit: .git existed before; existed: the object file the command writes
\* existed before; changed: the command changed something under .git;
\* unsorted: read_dir yielded the top directory in an order that is not the
\* ascending order of the names; trees: the tree payloads write_tree encoded;
\* calls: the nested calls of write_tree; results: what the command returns
\* over all the orders in which read_dir may have yielded the entries
Ran(op, arg, res) ==
    [op |-> op, arg |-> arg, res |-> res, reads |-> <<>>, preInit |-> store.root,
     existed |-> FALSE, changed |-> FALSE, unsorted |-> FALSE,
     trees |-> {}, calls |-> {}, results |-> {}]

\* the names of order other than .git are not in ascending order
Unsorted(order) ==
    \E i, j \in 1..Len(order) :
        i < j /\ order[i] # DOT_GIT /\ order[j] # DOT_GIT /\ BytesLess(order[j], order[i])

Init ==
    /\ store = NoStore
    /\ wt \in TreesUpTo(MaxNodes)
    /\ ho = HoIdle
    /\ wr = [p \in Procs |-> WrIdle]
    /\ last = [op |-> "", arg |-> <<>>, res |-> Ok(<<>>, NoObject), reads |-> <<>>,
               preInit |-> FALSE, existed |-> FALSE, changed |-> FALSE, unsorted |-> FALSE,
               trees |-> {}, calls |-> {}, results |-> {}]
    /\ nw = 0

\* the digests given on the command line: the empty one, one of one
\* character, and the one the last command printed
HashArgs == {<<>>, <<99>>, last.res.hash}

Modes == {"p", "t", "s", "e", ""}

\* Commands::Init
CmdInit ==
    LET r == init(store)
    IN /\ ho.pc = "idle"
       /\ store' = r.st
       /\ last' = [Ran("init", <<>>, r.res) EXCEPT !.changed = (r.st # store)]
       /\ UNCHANGED <<wt, ho, wr, nw>>

\* Commands::CatFile with one of -p -t -s -e, or none of them
CmdCatFile ==
    \E hash \in HashArgs, mode \in Modes :
        LET r == read_object(store, hash)
            res == IF r.res.tag = "Ok" /\ mode = "" THEN Err("Parse") ELSE r.res
        IN /\ ho.pc = "idle"
           /\ last' = [Ran("cat-file", hash, res) EXCEPT !.reads = r.reads]
           /\ UNCHANGED <<store, wt, ho, wr, nw>>

\* Commands::LsTree
CmdLsTree ==
    \E hash \in HashArgs :
        LET r == ls_tree(store, hash)
        IN /\ ho.pc = "idle"
           /\ last' = [Ran("ls-tree", hash, r.res) EXCEPT !.reads = r.reads]
           /\ UNCHANGED <<store, wt, ho, wr, nw>>

\* fs::read(filename) in the current directory: the error, or ""
FileError(name) ==
    IF name \notin DOMAIN wt THEN "Io.NotFound"
    ELSE IF wt[name].isDir THEN "Io.IsADirectory"
    ELSE ""

\* Commands::HashObject without -w
CmdHashObject ==
    \E name \in Names :
        /\ ho.pc = "idle"
        /\ last' = Ran("hash-object", name,
                       IF FileError(name) # "" THEN Err(FileError(name))
                       ELSE Ok(hash_object(wt[name].data, BLOB), NoObject))
        /\ UNCHANGED <<store, wt, ho, wr, nw>>

\* Commands::HashObject with -w, up to the digest of the first read
CmdHashObjectW ==
    \E name \in Names :
        /\ ho.pc = "idle"
        /\ nw < MaxWrites
        /\ nw' = nw + 1
        /\ IF FileError(name) # ""
           THEN /\ last' = Ran("hash-object -w", name, Err(FileError(name)))
                /\ ho' = ho
           ELSE /\ ho' = [pc |-> "hashed", file |-> name, hash |-> hash_object(wt[name].data, BLOB)]
                /\ last' = last
        /\ UNCHANGED <<store, wt, wr>>

\* Commands::HashObject with -w, from the second read on
CmdHashObjectWrite ==
    /\ ho.pc = "hashed"
    /\ LET file_content == wt[ho.file].data
           w == write_object(store, ho.hash, Encode(BLOB, file_content))
       IN /\ store' = w.st
          /\ last' = [Ran("hash-object -w", ho.file, w.res) EXCEPT
                         !.existed = HasObject(store, ho.hash), !.changed = (w.st # store)]
    /\ ho' = HoIdle
    /\ UNCHANGED <<wt, wr, nw>>

\* Commands::WriteTree
CmdWriteTree ==
    /\ ho.pc = "idle"
    /\ nw < MaxWrites
    /\ \E outcomes \in {write_tree(wt, <<>>, TRUE, store)} :
       \E results \in {{x.res : x \in outcomes}} :
       \E o \in outcomes :
            /\ nw' = nw + 1
            /\ store' = o.st
            /\ last' = [Ran("write-tree", <<>>, o.res) EXCEPT
                           !.existed = (o.res.tag = "Ok" /\ HasObject(store, o.res.hash)),
                           !.changed = (o.st # store), !.unsorted = Unsorted(o.enum),
                           !.trees = o.trees, !.calls = o.calls, !.results = results]
            /\ UNCHANGED <<wt, ho, wr>>

\* ------------------------------------------------------------ environment
Edited == [op |-> "edit", arg |-> <<>>, res |-> Ok(<<>>, NoObject), reads |-> <<>>,
           preInit |-> store.root, existed |-> FALSE, changed |-> FALSE, unsorted |-> FALSE,
           trees |-> {}, calls |-> {}, results |-> {}]

\* another program rewrites the file that hash-object -w is reading, between
\* the two reads
ExtModify ==
    /\ ho.pc = "hashed"
    /\ \E c \in Contents :
          /\ wt[ho.file].data # c
          /\ wt' = WithEntry(wt, ho.file, FileNode(c))
    /\ last' = Edited
    /\ UNCHANGED <<store, ho, wr, nw>>

Next ==
    \/ CmdInit
    \/ CmdCatFile
    \/ CmdLsTree
    \/ CmdHashObject
    \/ CmdHashObjectW
    \/ CmdHashObjectWrite
    \/ CmdWriteTree
    \/ ExtModify

Spec == Init /\ [][Next]_vars

\* the commands that write; the reading commands change neither .git nor the
\* directory, so these runs reach every store and every directory Spec reaches
NextWrite ==
    \/ CmdInit
    \/ CmdHashObjectW
    \/ CmdHashObjectWrite
    \/ CmdWriteTree
    \/ ExtModify

SpecWrite == Init /\ [][NextWrite]_vars

\* a current directory with at most one entry
InitFlat ==
    /\ store = NoStore
    /\ wt \in TreesUpTo(1)
    /\ ho = HoIdle
    /\ wr = [p \in Procs |-> WrIdle]
    /\ last = [op |-> "", arg |-> <<>>, res |-> Ok(<<>>, NoObject), reads |-> <<>>,
               preInit |-> FALSE, existed |-> FALSE, changed |-> FALSE, unsorted |-> FALSE,
               trees |-> {}, calls |-> {}, results |-> {}]
    /\ nw = 0

SpecFlat == InitFlat /\ [][Next]_vars

\* ------------------------------------------- two processes in write_object
\* the store of a run in an empty directory
InitRace ==
    /\ store = NoStore
    /\ wt = NoKids
    /\ ho = HoIdle
    /\ wr = [p \in Procs |-> WrIdle]
    /\ last = [op |-> "", arg |-> <<>>, res |-> Ok(<<>>, NoObject), reads |-> <<>>,
               preInit |-> FALSE, existed |-> FALSE, changed |-> FALSE, unsorted |-> FALSE,
               trees |-> {}, calls |-> {}, results |-> {}]
    /\ nw = 0

\* process p enters write_object for a blob: the digest and the compressed bytes
WrStart(p) ==
    /\ wr[p].pc \in {"idle", "done"}
    /\ \E c \in Contents :
          wr' = [wr EXCEPT ![p] = [pc |-> "create_dir", hash |-> hash_object(c, BLOB),
                                   bytes |-> compress_content(Encode(BLOB, c)),
                                   sawDir |-> FALSE, res |-> Ok(<<>>, NoObject)]]
    /\ UNCHANGED <<store, wt, ho, last, nw>>

\* fs::create_dir(...)? of process p; sawDir: the directory was there
WrCreateDir(p) ==
    /\ wr[p].pc = "create_dir"
    /\ LET c == create_dir(store, DirOf(wr[p].hash))
       IN /\ store' = c.st
          /\ wr' = [wr EXCEPT ![p].pc = IF c.err # "" THEN "done" ELSE "write",
                              ![p].sawDir = DirOf(wr[p].hash) \in store.dirs,
                              ![p].res = IF c.err # "" THEN Err(c.err) ELSE @]
    /\ UNCHANGED <<wt, ho, last, nw>>

\* fs::write(...)? of process p
WrWriteFile(p) ==
    /\ wr[p].pc = "write"
    /\ LET w == fs_write(store, DirOf(wr[p].hash), FileOf(wr[p].hash), wr[p].bytes)
       IN /\ store' = w.st
          /\ wr' = [wr EXCEPT ![p].pc = "done",
                              ![p].res = IF w.err # "" THEN Err(w.err) ELSE Ok(wr[p].hash, NoObject)]
    /\ UNCHANGED <<wt, ho, last, nw>>

NextRace ==
    \/ CmdInit
    \/ \E p \in Procs : WrStart(p)
    \/ \E p \in Procs : WrCreateDir(p)
    \/ \E p \in Procs : WrWriteFile(p)

SpecRace == InitRace /\ [][NextRace]_vars

\* ----------------------------------------------------------- properties
\* the header's kind and the payload of the encoding raw
KindOf(raw) == SubSeq(raw, 1, PositionOf(raw, SP))
PayloadOf(raw) == SubSeq(raw, PositionOf(raw, NUL) + 2, Len(raw))

\* the decompressed bytes of the object file p
RawAt(p) == decompress_object(store.files[p])

ReadCmds == {"cat-file", "ls-tree"}
WriteCmds == {"hash-object -w", "write-tree"}

\* C1: a blob written by hash_object + write_object into an initialized store
\* that did not hold it (hash-object -w whose two reads saw the same bytes) is
\* read back by read_object on the returned digest, with the kind blob and
\* the payload that was written
C1_WriteThenRead ==
    (/\ last.op = "hash-object -w"
     /\ last.res.tag = "Ok"
     /\ ~last.existed
     /\ last.res.hash = hash_object(wt[last.arg].data, BLOB))
    => LET r == read_object(store, last.res.hash).res
       IN r.tag = "Ok" /\ r.obj.type_ = BLOB /\ r.obj.content = wt[last.arg].data

\* C2: hash-object -w of an object whose file already exists in the
\* initialized store succeeds with the same digest, and the object is still there
C2_WriteIdempotent ==
    (last.op = "hash-object -w" /\ last.preInit /\ last.existed)
    => /\ last.res.tag = "Ok"
       /\ HasObject(store, last.res.hash)

C4_InitAlreadyExists ==
    (last.op = "init" /\ last.preInit)
    => /\ last.res.tag = "Err"
       /\ last.res.err = "Io.AlreadyExists"
       /\ ~last.changed

C6_ShortDigest ==
    (last.op \in ReadCmds /\ Len(last.arg) < 2)
    => /\ last.res = Err("InvalidHash")
       /\ last.reads = <<>>

C6_Witness ==
    /\ last.op = "cat-file"
    /\ Len(last.arg) = 1
    /\ store.root
    /\ DOMAIN store.files # {}
    /\ last.res.err = "InvalidHash"

\* the names are in strictly ascending byte order
Ascending(names) == \A i \in 1..(Len(names) - 1) : BytesLess(names[i], names[i + 1])

C8_PrefixDirTolerated ==
    \A p \in Procs :
        (wr[p].pc = "done" /\ wr[p].sawDir)
        => /\ wr[p].res.tag = "Ok"
           /\ HasObject(store, wr[p].hash)

\* C9: every object file holds the compressed encoding "<kind> <len>\0<payload>"
\* of a blob or tree whose digest is the file's address
C9_ContentAddressed ==
    \A p \in DOMAIN store.files :
        /\ IsZlib(store.files[p])
        /\ KindOf(RawAt(p)) \in {BLOB, TREE}
        /\ RawAt(p) = Encode(KindOf(RawAt(p)), PayloadOf(RawAt(p)))
        /\ hash_object(PayloadOf(RawAt(p)), KindOf(RawAt(p))) = p[1] \o p[2]

\* path a is a proper prefix of path b
IsAbove(a, b) == Len(a) < Len(b) /\ SubSeq(b, 1, Len(a)) = a

\* C10: every digest inside a stored tree names a stored object, and a call
\* of write_tree writes no tree for a directory in which a child failed, nor
\* for any directory above one whose tree was not written
C10_TreeClosed ==
    /\ \A p \in DOMAIN store.files :
          KindOf(RawAt(p)) = TREE
          => LET r == read_tree_entries(PayloadOf(RawAt(p)), 0, <<>>, <<>>)
             IN \A i \in 1..Len(r.shas) : HasObject(store, r.shas[i])
    /\ \A c \in last.calls : c.childFailed => ~c.wroteTree
    /\ \A a, c \in last.calls : (IsAbove(a.path, c.path) /\ ~c.wroteTree) => ~a.wroteTree
    /\ last.op = "write-tree" => ((last.res.tag = "Ok") <=> (\A c \in last.calls : c.wroteTree))

\* write-tree failed in a directory below the top after storing something
C10_Witness ==
    /\ last.op = "write-tree"
    /\ last.res.tag = "Err"
    /\ last.preInit
    /\ last.changed
    /\ \E d \in DOMAIN wt : wt[d].isDir /\ DOMAIN wt[d].kids # {}
    /\ \E p \in DOMAIN store.files : KindOf(RawAt(p)) = TREE

====
